---- MODULE Spec2Model ----
(***************************************************************************)
(* The shallow-water script shallow_water_sim.py as a state machine: the   *)
(* parameter and array set-up (lines 120-242), the time loop (247-299) and *)
(* the hand-over of the sample lists to the animation functions (14-72).   *)
(*                                                                         *)
(* Field values are exact rationals <<numerator, denominator>>, so that    *)
(* the algebra of the scheme is the algebra of the code in exact           *)
(* arithmetic.  Configurations are kept to those whose arithmetic is       *)
(* finite: L_x, L_y # 0 and g*H a positive perfect square.                 *)
(***************************************************************************)
EXTENDS Integers, Sequences, FiniteSets

VARIABLES
    pc,              \* "start", "loop", "done", "aborted"; "flux"/"fluxed" in SpecFlux
    err,             \* the exception that ended the script, or "none"
    N_x, N_y, L_x, L_y, g, H, max_time_step, anim_interval,
    dx, dy, dt,
    time_step,
    heap,            \* the arrays that names and lists refer to, by identity
    u_n, u_np1, v_n, v_np1, eta_n, eta_np1,      \* references into heap
    h_e, h_w, h_n, h_s, uhwe, vhns,              \* scratch arrays
    u_list, v_list, eta_list,                    \* lists of references
    origin,          \* history: for each heap array, its field and time level
    steps,           \* history: completed loop iterations
    sampled_at       \* history: time_step at each sampling

vars == <<pc, err, N_x, N_y, L_x, L_y, g, H, max_time_step, anim_interval,
          dx, dy, dt, time_step, heap, u_n, u_np1, v_n, v_np1, eta_n, eta_np1,
          h_e, h_w, h_n, h_s, uhwe, vhns, u_list, v_list, eta_list,
          origin, steps, sampled_at>>

config == <<N_x, N_y, L_x, L_y, g, H, max_time_step, anim_interval>>

-----------------------------------------------------------------------------
(* Bounds of the model. *)

MaxN == 3            \* largest grid size per direction
MaxAmp == 2          \* largest amplitude of the initial bump
MaxTime == 4         \* largest max_time_step
MaxInterval == 3     \* largest anim_interval
MaxFace == 1         \* largest |velocity| drawn for the flux computation alone

-----------------------------------------------------------------------------
(* Exact arithmetic on rationals <<n, d>>, d > 0, in lowest terms. *)

Abs(n) == IF n < 0 THEN -n ELSE n

RECURSIVE GCD(_, _)
GCD(a, b) == IF b = 0 THEN a ELSE GCD(b, a % b)

Rat(n, d) ==
    LET k == GCD(Abs(n), Abs(d))
        s == IF d < 0 THEN -1 ELSE 1
    IN  <<s * (n \div k), s * (d \div k)>>

Zero == <<0, 1>>
FromInt(n) == <<n, 1>>

RAdd(a, b) ==
    LET k == GCD(a[2], b[2])
    IN  Rat(a[1] * (b[2] \div k) + b[1] * (a[2] \div k), (a[2] \div k) * b[2])

RNeg(a) == <<-a[1], a[2]>>

RSub(a, b) == RAdd(a, RNeg(b))

RMul(a, b) ==
    LET k1 == GCD(Abs(a[1]), b[2])
        k2 == GCD(Abs(b[1]), a[2])
    IN  <<(a[1] \div k1) * (b[1] \div k2), (a[2] \div k2) * (b[2] \div k1)>>

\* a / b for b # 0
RDiv(a, b) ==
    RMul(a, IF b[1] < 0 THEN <<-b[2], -b[1]>> ELSE <<b[2], b[1]>>)

RLess(a, b) == a[1] * b[2] < b[1] * a[2]

Positive(a) == a[1] > 0

RMin(a, b) == IF RLess(b, a) THEN b ELSE a

\* the root of a perfect square
ISqrt(n) == CHOOSE r \in 0..n : r * r = n

RSqrt(a) == <<ISqrt(a[1]), ISqrt(a[2])>>

-----------------------------------------------------------------------------
(* Arrays of shape (N_x, N_y): a[i][j], i along x, j along y. *)

Rows == 0..(N_x - 1)
Cols == 0..(N_y - 1)

\* np.zeros((N_x, N_y))
Zeros == [i \in Rows |-> [j \in Cols |-> Zero]]

\* the array a, with every entry computed once
Eager(a) == IF a = a THEN a ELSE a

RECURSIVE SumTo(_, _)
SumTo(f, n) == IF n < 0 THEN Zero ELSE RAdd(f[n], SumTo(f, n - 1))

SumAll(a) == SumTo([i \in Rows |-> SumTo(a[i], N_y - 1)], N_x - 1)

-----------------------------------------------------------------------------
(* The scheme of one time step (lines 249-280), operator by operator. *)

\* u_np1[:-1, :] = u_n[:-1, :] - g*dt/dx*(eta_n[1:, :] - eta_n[:-1, :]),
\* with c = g*dt/dx; the last row of u_np1 is not written
PredictU(unp1, un, eta, c) ==
    [i \in Rows |-> [j \in Cols |->
        IF i < N_x - 1
        THEN RSub(un[i][j], RMul(c, RSub(eta[i + 1][j], eta[i][j])))
        ELSE unp1[i][j]]]

\* v_np1[:, :-1] = v_n[:, :-1] - g*dt/dy*(eta_n[:, 1:] - eta_n[:, :-1])
PredictV(vnp1, vn, eta, c) ==
    [i \in Rows |-> [j \in Cols |->
        IF j < N_y - 1
        THEN RSub(vn[i][j], RMul(c, RSub(eta[i][j + 1], eta[i][j])))
        ELSE vnp1[i][j]]]

\* a plausible slip: a zero-gradient (open) wall, u[-1, :] = u[-2, :]
EasternBoundaryOpen(unp1) ==
    [i \in Rows |-> [j \in Cols |->
        IF i = N_x - 1 /\ i > 0 THEN unp1[i - 1][j] ELSE unp1[i][j]]]

\* u_np1[-1, :] = 0.0
EasternBoundary(unp1) ==
    [i \in Rows |-> [j \in Cols |->
        IF i = N_x - 1 THEN Zero ELSE unp1[i][j]]]

\* v_np1[:, -1] = 0.0
NorthernBoundary(vnp1) ==
    [i \in Rows |-> [j \in Cols |->
        IF j = N_y - 1 THEN Zero ELSE vnp1[i][j]]]

\* a plausible slip: the tie goes to the west cell (>= for >)
UpwindEastTieWest(unp1, eta, Hq) ==
    [i \in Rows |-> [j \in Cols |->
        IF i < N_x - 1
        THEN (IF ~Positive(RNeg(unp1[i][j]))
              THEN RAdd(eta[i][j], Hq) ELSE RAdd(eta[i + 1][j], Hq))
        ELSE RAdd(eta[i][j], Hq)]]

\* h_e[:-1, :] = np.where(u_np1[:-1, :] > 0, eta_n[:-1, :] + H, eta_n[1:, :] + H)
\* h_e[-1, :] = eta_n[-1, :] + H
UpwindEast(unp1, eta, Hq) ==
    [i \in Rows |-> [j \in Cols |->
        IF i < N_x - 1
        THEN (IF Positive(unp1[i][j])
              THEN RAdd(eta[i][j], Hq) ELSE RAdd(eta[i + 1][j], Hq))
        ELSE RAdd(eta[i][j], Hq)]]

\* a plausible slip: the west face takes the depth of its own cell
UpwindWestOwnCell(unp1, eta, Hq) ==
    [i \in Rows |-> [j \in Cols |-> RAdd(eta[i][j], Hq)]]

\* h_w[0, :] = eta_n[0, :] + H
\* h_w[1:, :] = np.where(u_np1[:-1, :] > 0, eta_n[:-1, :] + H, eta_n[1:, :] + H)
UpwindWest(unp1, eta, Hq) ==
    [i \in Rows |-> [j \in Cols |->
        IF i = 0
        THEN RAdd(eta[0][j], Hq)
        ELSE (IF Positive(unp1[i - 1][j])
              THEN RAdd(eta[i - 1][j], Hq) ELSE RAdd(eta[i][j], Hq))]]

\* h_n[:, :-1] = np.where(v_np1[:, :-1] > 0, eta_n[:, :-1] + H, eta_n[:, 1:] + H)
\* h_n[:, -1] = eta_n[:, -1] + H
UpwindNorth(vnp1, eta, Hq) ==
    [i \in Rows |-> [j \in Cols |->
        IF j < N_y - 1
        THEN (IF Positive(vnp1[i][j])
              THEN RAdd(eta[i][j], Hq) ELSE RAdd(eta[i][j + 1], Hq))
        ELSE RAdd(eta[i][j], Hq)]]

\* h_s[:, 0] = eta_n[:, 0] + H
\* h_s[:, 1:] = np.where(v_np1[:, :-1] > 0, eta_n[:, :-1] + H, eta_n[:, 1:] + H)
UpwindSouth(vnp1, eta, Hq) ==
    [i \in Rows |-> [j \in Cols |->
        IF j = 0
        THEN RAdd(eta[i][0], Hq)
        ELSE (IF Positive(vnp1[i][j - 1])
              THEN RAdd(eta[i][j - 1], Hq) ELSE RAdd(eta[i][j], Hq))]]

\* uhwe[0, :] = u_np1[0, :]*h_e[0, :]
\* uhwe[1:, :] = u_np1[1:, :]*h_e[1:, :] - u_np1[:-1, :]*h_w[1:, :]
FluxX(unp1, he, hw) ==
    [i \in Rows |-> [j \in Cols |->
        IF i = 0
        THEN RMul(unp1[0][j], he[0][j])
        ELSE RSub(RMul(unp1[i][j], he[i][j]), RMul(unp1[i - 1][j], hw[i][j]))]]

\* vhns[:, 0] = v_np1[:, 0]*h_n[:, 0]
\* vhns[:, 1:] = v_np1[:, 1:]*h_n[:, 1:] - v_np1[:, :-1]*h_s[:, 1:]
FluxY(vnp1, hn, hs) ==
    [i \in Rows |-> [j \in Cols |->
        IF j = 0
        THEN RMul(vnp1[i][0], hn[i][0])
        ELSE RSub(RMul(vnp1[i][j], hn[i][j]), RMul(vnp1[i][j - 1], hs[i][j]))]]

\* a plausible slip: the mass source switched on (sigma = 1)
ContinuityWithSource(eta, fx, fy, tdt, tdx, tdy) ==
    [i \in Rows |-> [j \in Cols |->
        RAdd(RSub(eta[i][j],
                  RMul(tdt, RAdd(RDiv(fx[i][j], tdx), RDiv(fy[i][j], tdy)))),
             tdt)]]

\* eta_np1[:, :] = eta_n[:, :] - dt*(uhwe[:, :]/dx + vhns[:, :]/dy)
Continuity(eta, fx, fy, tdt, tdx, tdy) ==
    [i \in Rows |-> [j \in Cols |->
        RSub(eta[i][j],
             RMul(tdt, RAdd(RDiv(fx[i][j], tdx), RDiv(fy[i][j], tdy))))]]

\* g*dt/dx, evaluated left to right
Coeff(gv, tdt, td) == RDiv(RMul(FromInt(gv), tdt), td)

-----------------------------------------------------------------------------
(* References: numpy arrays are objects; a name or a list entry holds a    *)
(* reference.  heap is the sequence of arrays ever allocated.              *)

\* a plausible slip: u_n = u_np1, a second name for the same array
NpAlias(hp, ref) == [heap |-> hp, ref |-> ref]

\* np.copy(a): a new array with the contents of a
NpCopy(hp, ref) == [heap |-> Append(hp, hp[ref]), ref |-> Len(hp) + 1]

\* a plausible slip: v_list.append(u_n)
SampleMixed(ul, vl, el, ur, vr, er) ==
    [u_list |-> Append(ul, ur), v_list |-> Append(vl, ur), eta_list |-> Append(el, er)]

\* u_list.append(u_n); v_list.append(v_n); eta_list.append(eta_n)
Sample(ul, vl, el, ur, vr, er) ==
    [u_list |-> Append(ul, ur), v_list |-> Append(vl, vr), eta_list |-> Append(el, er)]

\* velocity_animation.update / eta_animation3D.update_surf: the time shown
\* for frame num (0-based), in seconds
FrameTime(num, frame_interval) == RMul(FromInt(num), frame_interval)

-----------------------------------------------------------------------------
(* Configurations and inputs. *)

\* N_x, N_y (lines 143-144): the valid sizes and three invalid ones
GridSizes == {-1, 0, 1} \cup (2..MaxN)

\* L_x, L_y (lines 120-121), none 0
DomainLengths == {<<2, 2>>, <<-2, 2>>, <<2, -2>>}

\* g, H (lines 122-123), g*H a perfect square
Physical == {<<1, 1>>, <<4, 1>>, <<1, 4>>}

\* eta_n of line 210 is a bump on a resting surface; its place and height are
\* inputs here, and so is a uniform surface (0: the flat start)
Bump(ci, cj, a) ==
    [i \in Rows |-> [j \in Cols |-> IF i = ci /\ j = cj THEN FromInt(a) ELSE Zero]]

Uniform(a) == [i \in Rows |-> [j \in Cols |-> FromInt(a)]]

\* The exact values of a bump's run outgrow TLC's 32-bit integers in the
\* third pass of the loop (denominators square with every pass), and in the
\* second at depths above 1: a bump is run for two passes at depth 1, a
\* uniform surface for any max_time_step at any depth.
InitialEta(T, Hv) ==
    {Uniform(a) : a \in 0..1}
    \cup (IF T <= 3 /\ Hv = 1
          THEN {Bump(c[1], c[2], a) : c \in Rows \X Cols, a \in 1..MaxAmp}
          ELSE {})

-----------------------------------------------------------------------------
(* Start-up: lines 120-242. *)

\* the exception the set-up raises, by the first line that raises one
StartupErrorNoIndexCheck(Nx, Ny) ==
    IF Nx = 1 \/ Ny = 1 THEN "ZeroDivisionError"
    ELSE IF Nx < 0 \/ Ny < 0 THEN "ValueError"
    ELSE "none"

\* 145-146: L_x/(N_x - 1) divides by zero for a size of 1;
\* 151-152: np.linspace raises for a negative number of points;
\* 241-242: u_np1[-1, :] and v_np1[:, -1] index an axis of size 0
StartupError(Nx, Ny) ==
    IF Nx = 1 \/ Ny = 1 THEN "ZeroDivisionError"
    ELSE IF Nx < 0 \/ Ny < 0 THEN "ValueError"
    ELSE IF Nx = 0 \/ Ny = 0 THEN "IndexError"
    ELSE "none"

\* dx = L_x/(N_x - 1)
Spacing(L, N) == Rat(L, N - 1)

\* dt = 0.1*min(dx, dy)/np.sqrt(g*H)
TimeStep(tdx, tdy, gv, Hv) ==
    RDiv(RMul(<<1, 10>>, RMin(tdx, tdy)), RSqrt(FromInt(gv * Hv)))

Tag(f, l) == [field |-> f, level |-> l]

Init ==
    /\ pc = "start"
    /\ err = "none"
    /\ N_x \in GridSizes
    /\ N_y \in GridSizes
    /\ \E L \in DomainLengths : L_x = L[1] /\ L_y = L[2]
    /\ \E p \in Physical : g = p[1] /\ H = p[2]
    /\ max_time_step \in 1..MaxTime
    /\ anim_interval \in 1..MaxInterval
    /\ dx = Zero /\ dy = Zero /\ dt = Zero
    /\ time_step = 1
    /\ heap = <<>>
    /\ u_n = 0 /\ u_np1 = 0 /\ v_n = 0 /\ v_np1 = 0 /\ eta_n = 0 /\ eta_np1 = 0
    /\ h_e = <<>> /\ h_w = <<>> /\ h_n = <<>> /\ h_s = <<>>
    /\ uhwe = <<>> /\ vhns = <<>>
    /\ u_list = <<>> /\ v_list = <<>> /\ eta_list = <<>>
    /\ origin = <<>>
    /\ steps = 0
    /\ sampled_at = <<>>

Abort ==
    /\ pc = "start"
    /\ StartupError(N_x, N_y) # "none"
    /\ pc' = "aborted"
    /\ err' = StartupError(N_x, N_y)
    /\ UNCHANGED <<config, dx, dy, dt, time_step, heap, u_n, u_np1, v_n, v_np1,
                   eta_n, eta_np1, h_e, h_w, h_n, h_s, uhwe, vhns,
                   u_list, v_list, eta_list, origin, steps, sampled_at>>

\* arrays 1..6 are allocated at 185-190; line 210 binds eta_n to a seventh
\* and array 5 is dropped; 234-242 run the predictor once before the loop
Setup ==
    /\ pc = "start"
    /\ StartupError(N_x, N_y) = "none"
    /\ dx' = Spacing(L_x, N_x)
    /\ dy' = Spacing(L_y, N_y)
    /\ dt' = TimeStep(dx', dy', g, H)
    /\ \E eta0 \in InitialEta(max_time_step, H) :
        heap' = <<Zeros,
                  Eager(EasternBoundary(PredictU(Zeros, Zeros, eta0, Coeff(g, dt', dx')))),
                  Zeros,
                  Eager(NorthernBoundary(PredictV(Zeros, Zeros, eta0, Coeff(g, dt', dy')))),
                  Zeros, Zeros, eta0>>
    /\ h_e' = Zeros /\ h_w' = Zeros /\ h_n' = Zeros /\ h_s' = Zeros
    /\ uhwe' = Zeros /\ vhns' = Zeros
    /\ u_n' = 1 /\ u_np1' = 2 /\ v_n' = 3 /\ v_np1' = 4 /\ eta_n' = 7 /\ eta_np1' = 6
    /\ origin' = <<Tag("u", 0), Tag("u_np1", 0), Tag("v", 0), Tag("v_np1", 0),
                   Tag("dropped", 0), Tag("eta_np1", 0), Tag("eta", 0)>>
    /\ pc' = "loop"
    /\ UNCHANGED <<err, config, time_step, u_list, v_list, eta_list, steps, sampled_at>>

-----------------------------------------------------------------------------
(* The time loop: lines 247-299. *)

\* 285-287: the three copies, in order, on the heap hp
Rotate(hp) ==
    LET cu == NpCopy(hp, u_np1)
        cv == NpCopy(cu.heap, v_np1)
        ce == NpCopy(cv.heap, eta_np1)
    IN  [heap |-> ce.heap, u_n |-> cu.ref, v_n |-> cv.ref, eta_n |-> ce.ref]

\* 260-276: the scratch arrays, from the new velocities and the current eta
FluxScratch(un1, vn1) ==
    /\ h_e' = Eager(UpwindEast(un1, heap[eta_n], FromInt(H)))
    /\ h_w' = Eager(UpwindWest(un1, heap[eta_n], FromInt(H)))
    /\ h_n' = Eager(UpwindNorth(vn1, heap[eta_n], FromInt(H)))
    /\ h_s' = Eager(UpwindSouth(vn1, heap[eta_n], FromInt(H)))
    /\ uhwe' = Eager(FluxX(un1, h_e', h_w'))
    /\ vhns' = Eager(FluxY(vn1, h_n', h_s'))

\* one pass of the loop body; a singleton \E names a value computed once
Step ==
    /\ pc = "loop"
    /\ time_step < max_time_step
    /\ \E un1 \in {Eager(EasternBoundary(
                      PredictU(heap[u_np1], heap[u_n], heap[eta_n], Coeff(g, dt, dx))))},
          vn1 \in {Eager(NorthernBoundary(
                      PredictV(heap[v_np1], heap[v_n], heap[eta_n], Coeff(g, dt, dy))))} :
        /\ FluxScratch(un1, vn1)
        /\ \E en1 \in {Eager(Continuity(heap[eta_n], uhwe', vhns', dt, dx, dy))} :
           \E r \in {Rotate([heap EXCEPT ![u_np1] = un1, ![v_np1] = vn1,
                                         ![eta_np1] = en1])} :
              /\ heap' = r.heap
              /\ u_n' = r.u_n /\ v_n' = r.v_n /\ eta_n' = r.eta_n
              /\ origin' = [k \in 1..Len(r.heap) |->
                              IF k <= Len(heap) THEN origin[k]
                              ELSE IF k = r.u_n THEN Tag("u", steps + 1)
                              ELSE IF k = r.v_n THEN Tag("v", steps + 1)
                              ELSE Tag("eta", steps + 1)]
    /\ time_step' = time_step + 1
    /\ IF time_step' % anim_interval = 0
       THEN \E smp \in {Sample(u_list, v_list, eta_list, u_n', v_n', eta_n')} :
               /\ u_list' = smp.u_list
               /\ v_list' = smp.v_list
               /\ eta_list' = smp.eta_list
               /\ sampled_at' = Append(sampled_at, time_step')
       ELSE UNCHANGED <<u_list, v_list, eta_list, sampled_at>>
    /\ steps' = steps + 1
    /\ UNCHANGED <<pc, err, config, dx, dy, dt, u_np1, v_np1, eta_np1>>

\* the loop condition fails and the script ends
Finish ==
    /\ pc = "loop"
    /\ ~(time_step < max_time_step)
    /\ pc' = "done"
    /\ UNCHANGED <<err, config, dx, dy, dt, time_step, heap, u_n, u_np1, v_n, v_np1,
                   eta_n, eta_np1, h_e, h_w, h_n, h_s, uhwe, vhns,
                   u_list, v_list, eta_list, origin, steps, sampled_at>>

Next == Abort \/ Setup \/ Step \/ Finish

Spec == Init /\ [][Next]_vars

-----------------------------------------------------------------------------
(* The flux computation alone (lines 260-280), as a function of the        *)
(* velocities and the surface it is given: the inputs are drawn from small *)
(* sets, the velocities with their wall row and column already zero        *)
(* (lines 253-254).                                                        *)

\* velocity a on the x-face east of cell (ci, cj), 0 elsewhere
OneFaceU(ci, cj, a) ==
    [i \in Rows |-> [j \in Cols |->
        IF i = ci /\ j = cj /\ i < N_x - 1 THEN FromInt(a) ELSE Zero]]

\* velocity a on the y-face north of cell (ci, cj), 0 elsewhere
OneFaceV(ci, cj, a) ==
    [i \in Rows |-> [j \in Cols |->
        IF i = ci /\ j = cj /\ j < N_y - 1 THEN FromInt(a) ELSE Zero]]

\* velocity a on every interior x-face
AllFacesU(a) ==
    [i \in Rows |-> [j \in Cols |-> IF i < N_x - 1 THEN FromInt(a) ELSE Zero]]

\* velocity a on every interior y-face
AllFacesV(a) ==
    [i \in Rows |-> [j \in Cols |-> IF j < N_y - 1 THEN FromInt(a) ELSE Zero]]

FaceSpeeds == (0 - MaxFace)..MaxFace

Velocities ==
    {<<OneFaceU(c[1], c[2], a), Zeros>> : c \in Rows \X Cols, a \in FaceSpeeds}
    \cup {<<Zeros, OneFaceV(c[1], c[2], a)>> : c \in Rows \X Cols, a \in FaceSpeeds}
    \cup {<<AllFacesU(a), AllFacesV(b)>> : a \in FaceSpeeds, b \in FaceSpeeds}

FluxEta == {Uniform(a) : a \in 0..1} \cup {Bump(c[1], c[2], 1) : c \in Rows \X Cols}

InitFlux ==
    /\ pc = "flux"
    /\ err = "none"
    /\ N_x \in 2..MaxN
    /\ N_y \in 2..MaxN
    /\ \E L \in DomainLengths : L_x = L[1] /\ L_y = L[2]
    /\ \E p \in Physical : g = p[1] /\ H = p[2]
    /\ max_time_step = 1
    /\ anim_interval = 1
    /\ dx = Spacing(L_x, N_x)
    /\ dy = Spacing(L_y, N_y)
    /\ dt = TimeStep(dx, dy, g, H)
    /\ time_step = 1
    /\ \E w \in Velocities, eta0 \in FluxEta :
          heap = <<Zeros, w[1], Zeros, w[2], Zeros, Zeros, eta0>>
    /\ u_n = 1 /\ u_np1 = 2 /\ v_n = 3 /\ v_np1 = 4 /\ eta_n = 7 /\ eta_np1 = 6
    /\ h_e = Zeros /\ h_w = Zeros /\ h_n = Zeros /\ h_s = Zeros
    /\ uhwe = Zeros /\ vhns = Zeros
    /\ u_list = <<>> /\ v_list = <<>> /\ eta_list = <<>>
    /\ origin = <<Tag("u", 0), Tag("u_np1", 0), Tag("v", 0), Tag("v_np1", 0),
                  Tag("dropped", 0), Tag("eta_np1", 0), Tag("eta", 0)>>
    /\ steps = 0
    /\ sampled_at = <<>>

\* lines 260-280 on the given velocities and surface
FluxApply ==
    /\ pc = "flux"
    /\ FluxScratch(heap[u_np1], heap[v_np1])
    /\ heap' = [heap EXCEPT ![eta_np1] =
                   Eager(Continuity(heap[eta_n], uhwe', vhns', dt, dx, dy))]
    /\ pc' = "fluxed"
    /\ UNCHANGED <<err, config, dx, dy, dt, time_step, u_n, u_np1, v_n, v_np1,
                   eta_n, eta_np1, u_list, v_list, eta_list, origin, steps,
                   sampled_at>>

SpecFlux == InitFlux /\ [][FluxApply]_vars

-----------------------------------------------------------------------------
(* Properties. *)

Running == pc \in {"loop", "done"}

Snapshots == 1..Len(u_list)

NoSnapshot == u_list = <<>> /\ v_list = <<>> /\ eta_list = <<>>

\* the surface the run started from: array 7 is bound to eta_n at line 210
\* and is never written afterwards
eta_0 == heap[7]

\* C1: at the start of the loop and after every pass, the last row of the
\* current u and the last column of the current v are exactly 0.
C1_BoundaryInvariant ==
    Running =>
        /\ \A j \in Cols : heap[u_n][N_x - 1][j] = Zero
        /\ \A i \in Rows : heap[v_n][i][N_y - 1] = Zero

C1_Witness ==
    /\ pc = "done"
    /\ steps >= 2
    /\ \E i \in Rows, j \in Cols : heap[u_n][i][j] # Zero
    /\ \E i \in Rows, j \in Cols : heap[v_n][i][j] # Zero

\* the flux through the wall faces: east of the last row, north of the last
\* column (the west and south walls carry no flux term at all)
WallFluxX == SumTo([j \in Cols |-> RMul(heap[u_np1][N_x - 1][j], h_e[N_x - 1][j])], N_y - 1)
WallFluxY == SumTo([i \in Rows |-> RMul(heap[v_np1][i][N_y - 1], h_n[i][N_y - 1])], N_x - 1)

\* C2: after every pass, each interior face has one depth for the two cells
\* it separates (h_e of the west cell is h_w of the east cell, h_n of the
\* south cell is h_s of the north cell), the flux divergences sum to the
\* flux through the wall faces, that is 0, and the sum of eta over all
\* cells is the sum it started with.
C2_MassConserved ==
    (Running /\ steps >= 1) =>
        /\ \A i \in Rows, j \in Cols : i < N_x - 1 => h_e[i][j] = h_w[i + 1][j]
        /\ \A i \in Rows, j \in Cols : j < N_y - 1 => h_n[i][j] = h_s[i][j + 1]
        /\ SumAll(uhwe) = WallFluxX
        /\ SumAll(vhns) = WallFluxY
        /\ WallFluxX = Zero
        /\ WallFluxY = Zero
        /\ SumAll(heap[eta_np1]) = SumAll(eta_0)
        /\ SumAll(heap[eta_n]) = SumAll(eta_0)

C2_Witness ==
    /\ pc = "done"
    /\ steps >= 2
    /\ heap[eta_n] # eta_0
    /\ \E i \in Rows, j \in Cols : uhwe[i][j] # Zero
    /\ \E i \in Rows, j \in Cols : vhns[i][j] # Zero

\* C3: once the flux arrays are computed, every interior x-face between
\* cells (i, j) and (i+1, j) has depth eta_n[i][j] + H when u_np1[i][j] > 0
\* and eta_n[i+1][j] + H otherwise, in h_e of the west cell and in h_w of
\* the east cell; likewise every interior y-face with v_np1, h_n and h_s.
\* At velocity exactly 0 the depth is that of the east (north) cell.
C3_UpwindSelection ==
    pc = "fluxed" =>
        /\ \A i \in Rows, j \in Cols : i < N_x - 1 =>
              LET d == IF heap[u_np1][i][j][1] > 0
                       THEN RAdd(heap[eta_n][i][j], FromInt(H))
                       ELSE RAdd(heap[eta_n][i + 1][j], FromInt(H))
              IN  h_e[i][j] = d /\ h_w[i + 1][j] = d
        /\ \A i \in Rows, j \in Cols : j < N_y - 1 =>
              LET d == IF heap[v_np1][i][j][1] > 0
                       THEN RAdd(heap[eta_n][i][j], FromInt(H))
                       ELSE RAdd(heap[eta_n][i][j + 1], FromInt(H))
              IN  h_n[i][j] = d /\ h_s[i][j + 1] = d

\* a face at velocity exactly 0 between cells of different depth
C3_Witness ==
    /\ pc = "fluxed"
    /\ \E i \in Rows, j \in Cols :
          /\ i < N_x - 1
          /\ heap[u_np1][i][j] = Zero
          /\ heap[eta_n][i][j] # heap[eta_n][i + 1][j]
          /\ h_e[i][j] = RAdd(heap[eta_n][i + 1][j], FromInt(H))

C5_SnapshotCount ==
    pc = "done" =>
        /\ Len(u_list) = max_time_step \div anim_interval
        /\ Len(v_list) = Len(u_list)
        /\ Len(eta_list) = Len(u_list)

\* C6, as claimed: when the loop has ended, exactly max_time_step passes
\* have been made.
C6_RunLength == pc = "done" => steps = max_time_step

\* C7, as claimed: the k-th snapshot is the state produced by exactly
\* k * anim_interval completed passes.
C7_SamplingSchedule ==
    \A k \in Snapshots :
        /\ origin[u_list[k]] = Tag("u", k * anim_interval)
        /\ origin[v_list[k]] = Tag("v", k * anim_interval)
        /\ origin[eta_list[k]] = Tag("eta", k * anim_interval)

\* the arrays a pass writes in place
Written == {u_np1, v_np1, eta_np1}

\* C8: a step leaves every snapshot entry in place and its array unchanged,
\* and no entry of the lists is one of the arrays the loop writes in place.
C8_SnapshotsImmutable ==
    [][/\ \A k \in Snapshots :
             /\ k <= Len(u_list') /\ k <= Len(v_list') /\ k <= Len(eta_list')
             /\ u_list'[k] = u_list[k]
             /\ v_list'[k] = v_list[k]
             /\ eta_list'[k] = eta_list[k]
             /\ heap'[u_list[k]] = heap[u_list[k]]
             /\ heap'[v_list[k]] = heap[v_list[k]]
             /\ heap'[eta_list[k]] = heap[eta_list[k]]
       /\ \A k \in 1..Len(u_list') :
             /\ u_list'[k] \notin Written
             /\ v_list'[k] \notin Written
             /\ eta_list'[k] \notin Written]_vars

\* a first snapshot, and a later pass that moved the fields on
C8_Witness ==
    /\ Len(u_list) >= 2
    /\ heap[u_n] # heap[u_list[1]]
    /\ heap[eta_n] # heap[eta_list[1]]

\* dt <= min(dx, dy)/sqrt(g*H)
CFLBound == RDiv(RMin(dx, dy), RSqrt(FromInt(g * H)))

InvalidConfig ==
    \/ N_x < 2
    \/ N_y < 2
    \/ /\ Running
       /\ \/ ~Positive(dx)
          \/ ~Positive(dy)
          \/ ~Positive(dt)
          \/ RLess(CFLBound, dt)

NotBegun == pc \in {"start", "aborted"} /\ steps = 0 /\ NoSnapshot

\* C9, as claimed: with a grid size below 2, or a non-positive dx, dy or dt,
\* or dt above the CFL bound, the run does not begin.
C9_ConfigErrorsFatal == InvalidConfig => NotBegun

\* C9, amended: with a grid size below 2 the set-up raises and the run does
\* not begin; with both sizes at least 2 nothing is checked and the set-up
\* never raises, whatever the signs of dx, dy and dt.
C9_SmallGridFatal ==
    /\ (N_x < 2 \/ N_y < 2) => NotBegun
    /\ pc = "aborted" => err # "none"
    /\ (N_x >= 2 /\ N_y >= 2) => pc # "aborted" /\ err = "none"

C9_Witness == pc = "aborted" /\ N_x = 0 /\ N_y >= 2 /\ err = "IndexError"

\* C10, as claimed: every snapshot carries the time step_index * dt; the only
\* time a snapshot gets is the one the animation shows for its frame, with
\* frame_interval the time between two samples
C10_SnapshotTimeTag ==
    \A k \in Snapshots :
        FrameTime(k - 1, RMul(FromInt(anim_interval), dt))
            = RMul(FromInt(sampled_at[k]), dt)

\* C10, amended: the lists have equal length and their k-th entries are
\* references to the u, v and eta arrays of one sampling: the state after
\* step_index - 1 passes.  No time is kept with them.
C10_SnapshotTriples ==
    /\ Len(v_list) = Len(u_list)
    /\ Len(eta_list) = Len(u_list)
    /\ Len(sampled_at) = Len(u_list)
    /\ \A k \in Snapshots :
          /\ origin[u_list[k]] = Tag("u", sampled_at[k] - 1)
          /\ origin[v_list[k]] = Tag("v", sampled_at[k] - 1)
          /\ origin[eta_list[k]] = Tag("eta", sampled_at[k] - 1)

C10_Witness == pc = "done" /\ Len(u_list) >= 2 /\ anim_interval >= 2

====
